---------------------------- MODULE Spec2Model ----------------------------
(***************************************************************************)
(* Model of the unspent-output pool of src/visor/blockdb/unspent.go:       *)
(* the in-memory cache (map + xor checksum) guarded by the embedded mutex, *)
(* the two bolt buckets (unspent_pool, unspent_meta) seen through a write  *)
(* transaction, the block handler returned by processBlock together with   *)
(* its rollback closure, and the locking query methods.                    *)
(*                                                                         *)
(* A cipher.SHA256 value is a natural number of NumIds bits.  An output    *)
(* is identified by its body; Hash(ux) is the key of both maps and         *)
(* SnapshotHash(ux) is a one-hot word, so that the xor of the snapshot     *)
(* hashes of two different sets of outputs never coincides (as for real    *)
(* SHA256 digests).                                                        *)
(***************************************************************************)
EXTENDS Integers, Sequences, FiniteSets, TLC

\* ------------------------------------------------------------------ bounds
NumIds == 3
MaxTxns == 2
MaxIn == 1
MaxOut == 1
NumAddrs == 2
NumReaders == 1
ConcIds == 2

\* ------------------------------------------------------------- data model
Ids == 1..NumIds
Addrs == 1..NumAddrs
UxOuts == [Body : Ids]
\* cipher.SHA256{}: the zero value
ZeroHash == 0

SeqsUpTo(S, n) == UNION {[1..k -> S] : k \in 0..n}
Txns(S) == [In : SeqsUpTo(S, MaxIn), Out : SeqsUpTo(S, MaxOut)]

Writer == <<"w", 0>>
Readers == {<<"r", i>> : i \in 1..NumReaders}
Threads == {Writer} \cup Readers

\* ux.Hash(): the digest of the body, the key of cache and bucket
Hash(ux) == ux.Body
\* ux.SnapshotHash(): the digest used for the checksum only
SnapshotHash(ux) == 2 ^ (ux.Body - 1)
\* ux.Body.Address
Address(ux) == 1 + (ux.Body % NumAddrs)

\* cipher.SHA256.Xor: bitwise exclusive or
RECURSIVE Xor(_, _)
Xor(a, b) ==
    IF a = 0 THEN b
    ELSE IF b = 0 THEN a
    ELSE (((a % 2) + (b % 2)) % 2) + (2 * Xor(a \div 2, b \div 2))

\* coin.CreateUnspents(b.Head, txn): one output per txn.Out entry, in order
CreateUnspents(txn) == [i \in 1..Len(txn.Out) |-> [Body |-> txn.Out[i]]]

MapPut(m, k, v) == [x \in (DOMAIN m) \cup {k} |-> IF x = k THEN v ELSE m[x]]
MapDel(m, k) == [x \in (DOMAIN m) \ {k} |-> m[x]]
EmptyMap == [x \in {} |-> [Body |-> 1]]

RECURSIVE XorOfSet(_)
XorOfSet(S) ==
    IF S = {} THEN ZeroHash
    ELSE LET ux == CHOOSE u \in S : TRUE
         IN  Xor(SnapshotHash(ux), XorOfSet(S \ {ux}))

Range(f) == {f[x] : x \in DOMAIN f}

\* ------------------------------------------------------------ bolt buckets
\* unspentMeta.getXorHash / getUxHashFromDB: the stored value, zero if absent
getXorHash(meta) == IF meta = <<>> THEN ZeroHash ELSE meta[1]
\* unspentMeta.setXorHash
setXorHash(hash) == <<hash>>
getUxHashFromDB(meta) == IF meta = <<>> THEN ZeroHash ELSE meta[1]

\* deleteWithTx on the transaction's view t = [pool, meta]; failAt = k makes
\* uxouts.delete fail for the k-th hash (0: no store error).
RECURSIVE deleteWithTxFrom(_, _, _, _, _)
deleteWithTxFrom(t, hashes, k, uxHash, failAt) ==
    IF k > Len(hashes) THEN [pool |-> t.pool, meta |-> t.meta, uxHash |-> uxHash, err |-> "ok"]
    ELSE IF hashes[k] \notin DOMAIN t.pool
         THEN deleteWithTxFrom(t, hashes, k + 1, uxHash, failAt)
         ELSE LET ux == t.pool[hashes[k]]
                  h  == Xor(getXorHash(t.meta), SnapshotHash(ux))
              IN  IF failAt = k
                  THEN [pool |-> t.pool, meta |-> setXorHash(h),
                        uxHash |-> ZeroHash, err |-> "StoreError"]
                  ELSE deleteWithTxFrom([pool |-> MapDel(t.pool, hashes[k]),
                                         meta |-> setXorHash(h)],
                                        hashes, k + 1, h, failAt)

deleteWithTx(t, hashes, failAt) == deleteWithTxFrom(t, hashes, 1, ZeroHash, failAt)

\* a getArray that leaves out the hashes it does not find
getArray_skipsMissing(pool, hashes) ==
    LET RECURSIVE found(_)
        found(k) == IF k > Len(hashes) THEN <<>>
                    ELSE IF hashes[k] \in DOMAIN pool
                         THEN <<pool[hashes[k]]>> \o found(k + 1)
                         ELSE found(k + 1)
    IN  [err |-> "ok", uxs |-> found(1)]

\* getArray: the cached outputs of the hashes, or the error of the first miss
getArray(pool, hashes) ==
    IF \A k \in 1..Len(hashes) : hashes[k] \in DOMAIN pool
    THEN [err |-> "ok", uxs |-> [k \in 1..Len(hashes) |-> pool[hashes[k]]]]
    ELSE [err |-> "NotFound", uxs |-> <<>>]

\* deleteUxFromCache / addUxToCache
RECURSIVE deleteUxFromCache(_, _)
deleteUxFromCache(pool, uxs) ==
    IF uxs = <<>> THEN pool
    ELSE deleteUxFromCache(MapDel(pool, Hash(Head(uxs))), Tail(uxs))

RECURSIVE addUxToCache(_, _)
addUxToCache(pool, uxs) ==
    IF uxs = <<>> THEN pool
    ELSE addUxToCache(MapPut(pool, Hash(Head(uxs)), Head(uxs)), Tail(uxs))


\* ------------------------------------------------------------------ state
VARIABLES
    cache_pool,     \* up.cache.pool: hash -> UxOut
    cache_uxhash,   \* up.cache.uxhash
    mu,             \* the embedded sync.Mutex: the set of threads that locked it
    db_pool,        \* committed contents of bucket unspent_pool
    db_meta,        \* committed value of key xorhash in bucket unspent_meta
    tx,             \* the caller's open bolt write transaction: its view of both buckets
    wpc,            \* position of the thread that owns the write transaction
    w,              \* locals of the handler returned by processBlock
    blk,            \* the transactions of the block handed over so far
    pre,            \* cache contents when the handler was entered
    last,           \* how the last outer transaction ended
    rpc,            \* position of each querying thread
    rop,            \* the query each querying thread runs
    rret,           \* the value the query computed
    ids             \* the output hashes that blocks and queries of this run name

vars == <<cache_pool, cache_uxhash, mu, db_pool, db_meta, tx, wpc, w, blk, pre,
          last, rpc, rop, rret, ids>>

cacheVars == <<cache_pool, cache_uxhash>>
dbVars == <<db_pool, db_meta>>
readerVars == <<rpc, rop, rret, ids>>

NoOp == [name |-> "none", ids |-> <<>>, addrs |-> {}]
NoRet == [kind |-> "none"]

wInit == [txn |-> [In |-> <<>>, Out |-> <<>>], txUxs |-> <<>>, i |-> 1,
          delUxs |-> <<>>, addUxs |-> <<>>, uxHash |-> ZeroHash,
          oldUxHash |-> ZeroHash, err |-> "none", fault |-> FALSE]

\* NewUnspentPool on an empty database: syncCache loads nothing
InitOver(S) ==
    /\ ids = S
    /\ cache_pool = EmptyMap
    /\ cache_uxhash = getUxHashFromDB(<<>>)
    /\ mu = {}
    /\ db_pool = EmptyMap
    /\ db_meta = <<>>
    /\ tx = [pool |-> EmptyMap, meta |-> <<>>]
    /\ wpc = "idle"
    /\ w = wInit
    /\ blk = <<>>
    /\ pre = [pool |-> EmptyMap, uxhash |-> ZeroHash, db_pool |-> EmptyMap, db_meta |-> <<>>]
    /\ last = "init"
    /\ rpc = [r \in Readers |-> "idle"]
    /\ rop = [r \in Readers |-> NoOp]
    /\ rret = [r \in Readers |-> NoRet]

Init == InitOver(Ids)

\* sync.Mutex
Lock(t) == mu = {} /\ mu' = {t}
Unlock == mu' = {}

\* --------------------------------------------------------------- the caller
\* db.Update opens the write transaction and calls the handler (line 133)
Begin ==
    /\ wpc \in {"idle", "done"}
    /\ wpc' = "capture"
    /\ tx' = [pool |-> db_pool, meta |-> db_meta]
    /\ w' = wInit
    /\ blk' = <<>>
    /\ pre' = [pool |-> cache_pool, uxhash |-> cache_uxhash,
               db_pool |-> db_pool, db_meta |-> db_meta]
    /\ last' = "open"
    /\ UNCHANGED <<cacheVars, mu, dbVars, readerVars>>

\* line 138: oldUxHash = up.cache.uxhash
Capture ==
    /\ wpc = "capture"
    /\ w' = [w EXCEPT !.oldUxHash = cache_uxhash]
    /\ wpc' = "loop"
    /\ UNCHANGED <<cacheVars, mu, dbVars, tx, blk, pre, last, readerVars>>

\* line 141: the next transaction of the block, or the end of the loop
NextTxn ==
    /\ wpc = "loop"
    /\ Len(blk) < MaxTxns
    /\ \E txn \in Txns(ids) :
         /\ w' = [w EXCEPT !.txn = txn]
         /\ blk' = Append(blk, txn)
    /\ wpc' = "resolve"
    /\ UNCHANGED <<cacheVars, mu, dbVars, tx, pre, last, readerVars>>

EndLoop ==
    /\ wpc = "loop"
    /\ wpc' = "update_lock"
    /\ UNCHANGED <<cacheVars, mu, dbVars, tx, w, blk, pre, last, readerVars>>

\* a resolve-inputs step that takes the spent outputs out of the cache at once
Resolve_eagerCache ==
    /\ wpc = "resolve"
    /\ LET r == getArray(cache_pool, w.txn.In)
       IN  IF r.err # "ok"
           THEN /\ w' = [w EXCEPT !.err = r.err]
                /\ wpc' = "returned"
                /\ cache_pool' = cache_pool
           ELSE /\ w' = [w EXCEPT !.delUxs = w.delUxs \o r.uxs]
                /\ wpc' = "delete"
                /\ cache_pool' = deleteUxFromCache(cache_pool, r.uxs)
    /\ UNCHANGED <<cache_uxhash, mu, dbVars, tx, blk, pre, last, readerVars>>

\* lines 143-148: uxs, err := up.getArray(txn.In)
Resolve ==
    /\ wpc = "resolve"
    /\ LET r == getArray(cache_pool, w.txn.In)
       IN  IF r.err # "ok"
           THEN /\ w' = [w EXCEPT !.err = r.err]
                /\ wpc' = "returned"
           ELSE /\ w' = [w EXCEPT !.delUxs = w.delUxs \o r.uxs]
                /\ wpc' = "delete"
    /\ UNCHANGED <<cacheVars, mu, dbVars, tx, blk, pre, last, readerVars>>

\* where the loop of lines 158-163 goes with index i over txUxs
AddPc(i, txUxs) == IF i > Len(txUxs) THEN "loop" ELSE "contains_lock"

\* lines 151-157: deleteWithTx, then CreateUnspents and addUxs = append(...)
Delete ==
    /\ wpc = "delete"
    /\ \E failAt \in 0..Len(w.txn.In) :
         LET d == deleteWithTx(tx, w.txn.In, failAt)
             txUxs == CreateUnspents(w.txn)
         IN  /\ tx' = [pool |-> d.pool, meta |-> d.meta]
             /\ IF d.err # "ok"
                THEN /\ w' = [w EXCEPT !.err = d.err]
                     /\ wpc' = "returned"
                ELSE /\ w' = [w EXCEPT !.txUxs = txUxs, !.i = 1,
                                       !.addUxs = w.addUxs \o txUxs]
                     /\ wpc' = AddPc(1, txUxs)
    /\ UNCHANGED <<cacheVars, mu, dbVars, blk, pre, last, readerVars>>


\* Contains (lines 331-336), as called by addWithTx at line 195
ContainsLock ==
    /\ wpc = "contains_lock"
    /\ Lock(Writer)
    /\ wpc' = "contains_read"
    /\ UNCHANGED <<cacheVars, dbVars, tx, w, blk, pre, last, readerVars>>

\* an add step that does not look the output up before writing it
ContainsRead_noCheck ==
    /\ wpc = "contains_read"
    /\ Unlock
    /\ w' = w
    /\ wpc' = "add_store"
    /\ UNCHANGED <<cacheVars, dbVars, tx, blk, pre, last, readerVars>>

\* a Contains that returns without unlocking
ContainsRead_noUnlock ==
    /\ wpc = "contains_read"
    /\ mu' = mu
    /\ IF Hash(w.txUxs[w.i]) \in DOMAIN cache_pool
       THEN /\ w' = [w EXCEPT !.err = "DuplicateInsert"]
            /\ wpc' = "returned"
       ELSE /\ w' = w
            /\ wpc' = "add_store"
    /\ UNCHANGED <<cacheVars, dbVars, tx, blk, pre, last, readerVars>>

\* lines 333-335 and 195-197: the lookup, the deferred Unlock, the duplicate error
ContainsRead ==
    /\ wpc = "contains_read"
    /\ Unlock
    /\ IF Hash(w.txUxs[w.i]) \in DOMAIN cache_pool
       THEN /\ w' = [w EXCEPT !.err = "DuplicateInsert"]
            /\ wpc' = "returned"
       ELSE /\ w' = w
            /\ wpc' = "add_store"
    /\ UNCHANGED <<cacheVars, dbVars, tx, blk, pre, last, readerVars>>

\* an addWithTx whose deferred recover leaves err nil
addWithTx_recoverKeepsNil(t, ux, fail) ==
    LET xorhash == Xor(getXorHash(t.meta), SnapshotHash(ux))
    IN  CASE fail = "InternalFault" ->
               [pool |-> t.pool, meta |-> t.meta, uxhash |-> ZeroHash, err |-> "ok"]
          [] fail = "InternalFaultAfterPut" ->
               [pool |-> t.pool, meta |-> setXorHash(xorhash), uxhash |-> ZeroHash,
                err |-> "ok"]
          [] fail = "StoreError" ->
               [pool |-> t.pool, meta |-> setXorHash(xorhash), uxhash |-> ZeroHash,
                err |-> "StoreError"]
          [] OTHER ->
               [pool |-> MapPut(t.pool, Hash(ux), ux), meta |-> setXorHash(xorhash),
                uxhash |-> xorhash, err |-> "ok"]

\* addWithTx lines 199-215 on the transaction's view t; fail names what goes
\* wrong: "none", "StoreError" (uxOuts.set fails after the checksum was put),
\* "InternalFault" (a panic before anything was written, e.g. in tx.Bucket)
\* or "InternalFaultAfterPut" (a panic in uxOuts.set, after the checksum was
\* put); the deferred recover of lines 187-191 turns both panics into an error
addWithTx(t, ux, fail) ==
    LET xorhash == Xor(getXorHash(t.meta), SnapshotHash(ux))
    IN  CASE fail = "InternalFault" ->
               [pool |-> t.pool, meta |-> t.meta, uxhash |-> ZeroHash, err |-> "InternalFault"]
          [] fail = "InternalFaultAfterPut" ->
               [pool |-> t.pool, meta |-> setXorHash(xorhash), uxhash |-> ZeroHash,
                err |-> "InternalFault"]
          [] fail = "StoreError" ->
               [pool |-> t.pool, meta |-> setXorHash(xorhash), uxhash |-> ZeroHash,
                err |-> "StoreError"]
          [] OTHER ->
               [pool |-> MapPut(t.pool, Hash(ux), ux), meta |-> setXorHash(xorhash),
                uxhash |-> xorhash, err |-> "ok"]

AddFails == {"none", "StoreError", "InternalFault", "InternalFaultAfterPut"}
Faults == {"InternalFault", "InternalFaultAfterPut"}

\* lines 159-163: uxHash, err = up.addWithTx(tx, txUxs[i]) after the Contains check
AddStore ==
    /\ wpc = "add_store"
    /\ \E fail \in AddFails :
         LET a == addWithTx(tx, w.txUxs[w.i], fail)
             f == w.fault \/ fail \in Faults
         IN  /\ tx' = [pool |-> a.pool, meta |-> a.meta]
             /\ IF a.err # "ok"
                THEN /\ w' = [w EXCEPT !.uxHash = a.uxhash, !.err = a.err, !.fault = f]
                     /\ wpc' = "returned"
                ELSE /\ w' = [w EXCEPT !.uxHash = a.uxhash, !.i = w.i + 1, !.fault = f]
                     /\ wpc' = AddPc(w.i + 1, w.txUxs)
    /\ UNCHANGED <<cacheVars, mu, dbVars, blk, pre, last, readerVars>>

\* line 167
UpdateLock ==
    /\ wpc = "update_lock"
    /\ Lock(Writer)
    /\ wpc' = "update_del"
    /\ UNCHANGED <<cacheVars, dbVars, tx, w, blk, pre, last, readerVars>>

\* a cache update that takes the lock for each of its steps: the removal
\* unlocks when it is done
UpdateDel_unlocks ==
    /\ wpc = "update_del"
    /\ cache_pool' = deleteUxFromCache(cache_pool, w.delUxs)
    /\ Unlock
    /\ wpc' = "update_add"
    /\ UNCHANGED <<cache_uxhash, dbVars, tx, w, blk, pre, last, readerVars>>

\* line 168
UpdateDel ==
    /\ wpc = "update_del"
    /\ cache_pool' = deleteUxFromCache(cache_pool, w.delUxs)
    /\ wpc' = "update_add"
    /\ UNCHANGED <<cache_uxhash, mu, dbVars, tx, w, blk, pre, last, readerVars>>

\* line 169
UpdateAdd ==
    /\ wpc = "update_add"
    /\ cache_pool' = addUxToCache(cache_pool, w.addUxs)
    /\ wpc' = "update_hash"
    /\ UNCHANGED <<cache_uxhash, mu, dbVars, tx, w, blk, pre, last, readerVars>>

\* updateUxHashInCache (lines 230-232)
updateUxHashInCache(hash) == hash

\* lines 170-173: updateUxHashInCache(uxHash), Unlock, return the rollback
UpdateHash ==
    /\ wpc = "update_hash"
    /\ cache_uxhash' = updateUxHashInCache(w.uxHash)
    /\ Unlock
    /\ w' = [w EXCEPT !.err = "ok"]
    /\ wpc' = "returned"
    /\ UNCHANGED <<cache_pool, dbVars, tx, blk, pre, last, readerVars>>

\* ------------------------------------------------- the caller, afterwards
\* the handler succeeded and so did every other participant: bolt commits
Commit ==
    /\ wpc = "returned"
    /\ w.err = "ok"
    /\ db_pool' = tx.pool
    /\ db_meta' = tx.meta
    /\ last' = "committed"
    /\ wpc' = "done"
    /\ UNCHANGED <<cacheVars, mu, tx, w, blk, pre, readerVars>>

\* a caller whose undo action is the closure of lines 173-180 whatever the
\* result was
InvokeRollback_alwaysUndo ==
    /\ wpc = "returned"
    /\ wpc' = "undo_lock"
    /\ UNCHANGED <<cacheVars, mu, dbVars, tx, w, blk, pre, last, readerVars>>

\* the caller invokes the bucket.Rollback it was given: func() {} after an
\* error (lines 145, 152, 161), the closure of lines 173-180 otherwise
InvokeRollback ==
    /\ wpc = "returned"
    /\ wpc' = IF w.err = "ok" THEN "undo_lock" ELSE "rolledback"
    /\ UNCHANGED <<cacheVars, mu, dbVars, tx, w, blk, pre, last, readerVars>>

\* line 174
UndoLock ==
    /\ wpc = "undo_lock"
    /\ Lock(Writer)
    /\ wpc' = "undo_del"
    /\ UNCHANGED <<cacheVars, dbVars, tx, w, blk, pre, last, readerVars>>

\* line 176
UndoDel ==
    /\ wpc = "undo_del"
    /\ cache_pool' = deleteUxFromCache(cache_pool, w.addUxs)
    /\ wpc' = "undo_add"
    /\ UNCHANGED <<cache_uxhash, mu, dbVars, tx, w, blk, pre, last, readerVars>>

\* line 177
UndoAdd ==
    /\ wpc = "undo_add"
    /\ cache_pool' = addUxToCache(cache_pool, w.delUxs)
    /\ wpc' = "undo_hash"
    /\ UNCHANGED <<cache_uxhash, mu, dbVars, tx, w, blk, pre, last, readerVars>>

\* a rollback that leaves the cached checksum as the block set it
UndoHash_keepsHash ==
    /\ wpc = "undo_hash"
    /\ cache_uxhash' = cache_uxhash
    /\ Unlock
    /\ wpc' = "rolledback"
    /\ UNCHANGED <<cache_pool, dbVars, tx, w, blk, pre, last, readerVars>>

\* lines 178-179
UndoHash ==
    /\ wpc = "undo_hash"
    /\ cache_uxhash' = updateUxHashInCache(w.oldUxHash)
    /\ Unlock
    /\ wpc' = "rolledback"
    /\ UNCHANGED <<cache_pool, dbVars, tx, w, blk, pre, last, readerVars>>

\* bolt discards the write transaction: after an error of the handler, or
\* after the rollback ran because another participant failed
Discard ==
    /\ \/ wpc = "returned" /\ w.err # "ok"
       \/ wpc = "rolledback"
    /\ last' = IF w.err = "ok" THEN "undone" ELSE "failed"
    /\ wpc' = "done"
    /\ UNCHANGED <<cacheVars, mu, dbVars, tx, w, blk, pre, readerVars>>

WriterNext ==
    \/ Begin \/ Capture \/ NextTxn \/ EndLoop \/ Resolve \/ Delete
    \/ ContainsLock \/ ContainsRead \/ AddStore
    \/ UpdateLock \/ UpdateDel \/ UpdateAdd \/ UpdateHash
    \/ Commit \/ InvokeRollback \/ UndoLock \/ UndoDel \/ UndoAdd \/ UndoHash
    \/ Discard

\* ----------------------------------------------------------------- queries
\* Each query gives the value it returns and whether the mutex was unlocked
\* on the path that returned it.
\* Get (lines 256-262)
Get(pool, h) ==
    [val |-> IF h \in DOMAIN pool THEN <<pool[h], TRUE>> ELSE <<>>, unlocked |-> TRUE]
\* GetArray (lines 236-240): deferred Unlock around getArray
GetArray(pool, hashes) == [val |-> getArray(pool, hashes), unlocked |-> TRUE]
\* GetAll (lines 265-274)
GetAll(pool) == [val |-> Range(pool), unlocked |-> TRUE]
\* Len (lines 312-316)
Len64(pool) == [val |-> Cardinality(DOMAIN pool), unlocked |-> TRUE]
\* Collides (lines 319-328): return true at line 323 skips the Unlock of line 326
Collides(pool, hashes) ==
    IF \E k \in 1..Len(hashes) : hashes[k] \in DOMAIN pool
    THEN [val |-> TRUE, unlocked |-> FALSE]
    ELSE [val |-> FALSE, unlocked |-> TRUE]
\* Contains (lines 331-336)
Contains(pool, h) == [val |-> h \in DOMAIN pool, unlocked |-> TRUE]
\* GetUnspentsOfAddr (lines 339-349)
GetUnspentsOfAddr(pool, addr) ==
    [val |-> {ux \in Range(pool) : Address(ux) = addr}, unlocked |-> TRUE]
\* GetUnspentsOfAddrs (lines 353-368): only addresses that own an output get a key
GetUnspentsOfAddrs(pool, addrs) ==
    LET owners == {a \in addrs : \E ux \in Range(pool) : Address(ux) = a}
    IN  [val |-> [a \in owners |-> {ux \in Range(pool) : Address(ux) = a}],
         unlocked |-> TRUE]
\* GetUxHash (lines 373-377)
GetUxHash(uxhash) == [val |-> uxhash, unlocked |-> TRUE]

Ops(S) ==
    [name : {"Get", "Contains"}, ids : [1..1 -> S], addrs : {{}}]
    \cup [name : {"GetArray", "Collides"}, ids : SeqsUpTo(S, MaxIn), addrs : {{}}]
    \cup [name : {"GetAll", "Len", "GetUxHash"}, ids : {<<>>}, addrs : {{}}]
    \cup [name : {"GetUnspentsOfAddr"}, ids : {<<>>}, addrs : {{a} : a \in Addrs}]
    \cup [name : {"GetUnspentsOfAddrs"}, ids : {<<>>}, addrs : SUBSET Addrs]

Query(op, pool, uxhash) ==
    CASE op.name = "Get" -> Get(pool, op.ids[1])
      [] op.name = "GetArray" -> GetArray(pool, op.ids)
      [] op.name = "GetAll" -> GetAll(pool)
      [] op.name = "Len" -> Len64(pool)
      [] op.name = "Collides" -> Collides(pool, op.ids)
      [] op.name = "Contains" -> Contains(pool, op.ids[1])
      [] op.name = "GetUnspentsOfAddr" -> GetUnspentsOfAddr(pool, CHOOSE a \in op.addrs : TRUE)
      [] op.name = "GetUnspentsOfAddrs" -> GetUnspentsOfAddrs(pool, op.addrs)
      [] op.name = "GetUxHash" -> GetUxHash(uxhash)

\* a thread calls a query; the first statement of each is up.Lock()
Call(r) ==
    /\ rpc[r] \in {"idle", "returned"}
    /\ \E op \in Ops(ids) : rop' = [rop EXCEPT ![r] = op]
    /\ rret' = [rret EXCEPT ![r] = NoRet]
    /\ rpc' = [rpc EXCEPT ![r] = "lock"]
    /\ UNCHANGED <<cacheVars, mu, dbVars, tx, wpc, w, blk, pre, last, ids>>

\* a query that enters its body without taking the mutex
Acquire_noLock(r) ==
    /\ rpc[r] = "lock"
    /\ mu' = mu
    /\ rpc' = [rpc EXCEPT ![r] = "locked"]
    /\ UNCHANGED <<cacheVars, dbVars, tx, wpc, w, blk, pre, last, rop, rret, ids>>

\* up.Lock() at the head of each query
Acquire(r) ==
    /\ rpc[r] = "lock"
    /\ Lock(r)
    /\ rpc' = [rpc EXCEPT ![r] = "locked"]
    /\ UNCHANGED <<cacheVars, dbVars, tx, wpc, w, blk, pre, last, rop, rret, ids>>

\* the body of the query up to its return
Finish(r) ==
    /\ rpc[r] = "locked"
    /\ LET q == Query(rop[r], cache_pool, cache_uxhash)
       IN  /\ rret' = [rret EXCEPT ![r] = [kind |-> "value", val |-> q.val]]
           /\ IF q.unlocked THEN Unlock ELSE mu' = mu
    /\ rpc' = [rpc EXCEPT ![r] = "returned"]
    /\ UNCHANGED <<cacheVars, dbVars, tx, wpc, w, blk, pre, last, rop, ids>>

ReaderNext == \E r \in Readers : Call(r) \/ Acquire(r) \/ Finish(r)

\* ----------------------------------------------------------------- restart
\* syncCache (lines 105-130): every record of bucket unspent_pool goes into the
\* fresh map under its key, the checksum comes from getUxHashFromDB
syncCache(pool, meta) ==
    [pool |-> [h \in DOMAIN pool |-> pool[h]], uxhash |-> getUxHashFromDB(meta)]

\* NewUnspentPool (lines 81-103) on the committed database, between two outer
\* transactions: the node restarts and builds a new pool with a new mutex
NewUnspentPool ==
    /\ wpc \in {"idle", "done"}
    /\ last # "restarted"
    /\ LET c == syncCache(db_pool, db_meta)
       IN  /\ cache_pool' = c.pool
           /\ cache_uxhash' = c.uxhash
    /\ mu' = {}
    /\ pre' = [pool |-> cache_pool, uxhash |-> cache_uxhash,
               db_pool |-> db_pool, db_meta |-> db_meta]
    /\ last' = "restarted"
    /\ wpc' = "idle"
    /\ w' = wInit
    /\ blk' = <<>>
    /\ UNCHANGED <<dbVars, tx, readerVars>>

\* -------------------------------------------------------- specifications
\* one thread applies blocks inside bolt write transactions; the node may
\* restart between two of them
Next == WriterNext \/ NewUnspentPool
Spec == Init /\ [][Next]_vars

\* the same, with other threads querying the pool at any time
ConcInit == InitOver(1..ConcIds)
ConcNext == WriterNext \/ ReaderNext
ConcSpec == ConcInit /\ [][ConcNext]_vars


\* the fairness the scheduler and sync.Mutex give: a thread inside a call
\* keeps running, and a thread waiting in Lock gets the mutex if it is
\* unlocked again and again; nobody is obliged to start a call
Fairness ==
    /\ \A r \in Readers : SF_vars(Acquire(r)) /\ WF_vars(Finish(r))
    /\ SF_vars(ContainsLock) /\ SF_vars(UpdateLock) /\ SF_vars(UndoLock)
    /\ WF_vars(Capture \/ EndLoop \/ Resolve \/ Delete \/ ContainsRead \/ AddStore
               \/ UpdateDel \/ UpdateAdd \/ UpdateHash \/ UndoDel \/ UndoAdd \/ UndoHash)
FairConcSpec == ConcSpec /\ Fairness

\* ------------------------------------------------------------- properties
\* what the spec calls get_all(), len(), contains(id) and checksum()
get_all == GetAll(cache_pool).val
len == Len64(cache_pool).val
contains(h) == Contains(cache_pool, h).val
checksum == GetUxHash(cache_uxhash).val

\* the handler or the rollback has returned and nothing is in flight
AfterOperation == wpc \in {"idle", "returned", "rolledback", "done"}
Failed == w.err \in {"NotFound", "DuplicateInsert", "StoreError", "InternalFault"}

\* C1: after every block application and every undo, checksum() equals the
\* xor of snapshot_hash over the records of get_all().
C1_ChecksumConsistency ==
    AfterOperation => checksum = XorOfSet(get_all)

\* C2: after a successful apply_block and the undo action it returned,
\* get_all(), len() and checksum() are what they were before apply_block.
C2_UndoExactness ==
    (wpc \in {"rolledback", "done"} /\ w.err = "ok" /\ last # "committed")
        => /\ get_all = Range(pre.pool)
           /\ cache_pool = pre.pool
           /\ len = Cardinality(DOMAIN pre.pool)
           /\ checksum = pre.uxhash

\* C2 witness: the undo of a block that spent and created records has run
C2_Witness ==
    /\ wpc = "rolledback" /\ w.err = "ok"
    /\ w.delUxs # <<>> /\ w.addUxs # <<>>
    /\ Len(blk) = MaxTxns

\* C3: whenever apply_block returned an error, cache mapping and cached
\* checksum are what they were before the call.
C3_AtomicOnFailure ==
    (wpc \in {"returned", "rolledback", "done"} /\ Failed)
        => /\ cache_pool = pre.pool
           /\ cache_uxhash = pre.uxhash

\* C3 witness: the block failed at its second transaction, after the first
\* one had deleted and inserted records through the store transaction
C3_Witness ==
    /\ wpc = "returned" /\ Failed
    /\ Len(blk) = 2
    /\ blk[1].In # <<>> /\ blk[1].Out # <<>>
    /\ DOMAIN tx.pool # DOMAIN db_pool

\* C4: at every quiescent point the cache mapping equals the Output Region
\* and the cached checksum equals the value of the Checksum Region.
C4_CacheStoreSync ==
    wpc = "done" => /\ cache_pool = db_pool
                    /\ cache_uxhash = getUxHashFromDB(db_meta)

\* C5: an apply_block that tries to insert a record whose id is in the pool
\* never writes it and fails with the duplicate-insert error; once the
\* caller discarded the transaction, cache and store are as before the call.
C5_NoDuplicates ==
    /\ wpc = "add_store" => Hash(w.txUxs[w.i]) \notin DOMAIN pre.pool
    /\ (wpc \in {"returned", "rolledback", "done"} /\ w.err = "ok")
          => \A k \in 1..Len(w.addUxs) : Hash(w.addUxs[k]) \notin DOMAIN pre.pool
    /\ (wpc \in {"returned", "done"} /\ w.err = "DuplicateInsert")
          => /\ cache_pool = pre.pool /\ cache_uxhash = pre.uxhash
             /\ db_pool = pre.db_pool /\ db_meta = pre.db_meta

\* C5 witness: a block whose second transaction re-creates a record of the
\* pool was refused and its transaction, which held writes, was discarded
C5_Witness ==
    /\ wpc = "done" /\ last = "failed" /\ w.err = "DuplicateInsert"
    /\ Len(blk) = 2
    /\ Hash(w.txUxs[w.i]) \in DOMAIN pre.pool
    /\ tx.meta # db_meta

\* the records a block spends and creates
RECURSIVE SpentIds(_)
SpentIds(b) == IF b = <<>> THEN {} ELSE Range(Head(b).In) \cup SpentIds(Tail(b))
RECURSIVE CreatedSeq(_)
CreatedSeq(b) == IF b = <<>> THEN <<>> ELSE CreateUnspents(Head(b)) \o CreatedSeq(Tail(b))

\* C6: for a block whose inputs are all in the pool S and whose created ids
\* are fresh and pairwise distinct, apply_block succeeds and leaves
\* (S minus spent) plus created, with checksum c xor spent xor created.
C6_ApplyResult ==
    LET created == CreatedSeq(blk)
        spent == {pre.pool[h] : h \in SpentIds(blk)}
        expect == (Range(pre.pool) \ spent) \cup Range(created)
    IN  (/\ wpc = "returned"
         /\ w.err \notin {"StoreError", "InternalFault"}
         /\ SpentIds(blk) \subseteq DOMAIN pre.pool
         /\ \A k \in 1..Len(created) : Hash(created[k]) \notin DOMAIN pre.pool
         /\ \A j, k \in 1..Len(created) : Hash(created[j]) = Hash(created[k]) => j = k)
        => /\ w.err = "ok"
           /\ get_all = expect
           /\ len = Cardinality(expect)
           /\ \A h \in SpentIds(blk) : ~contains(h)
           /\ \A k \in 1..Len(created) : contains(Hash(created[k]))
           /\ checksum = Xor(pre.uxhash, Xor(XorOfSet(spent), XorOfSet(Range(created))))

\* C7: when a query has returned, its caller no longer holds the cache lock.
C7_QueryReleasesLock ==
    \A r \in Readers : rpc[r] \in {"idle", "returned"} => r \notin mu

\* C8: every thread that waits for the cache lock eventually gets it and
\* its operation returns.
C8_RunsToCompletion ==
    /\ \A r \in Readers : (rpc[r] = "lock") ~> (rpc[r] = "returned")
    /\ (wpc \in {"contains_lock", "update_lock", "undo_lock"})
          ~> (wpc \in {"returned", "rolledback"})

\* the statement a thread is about to execute reads or writes the cache
WriterLockedPcs == {"contains_read", "update_del", "update_add", "update_hash",
                    "undo_del", "undo_add", "undo_hash"}
WriterUnlockedPcs == {"capture", "resolve"}
WriterMutatingPcs == {"update_del", "update_add", "update_hash",
                      "undo_del", "undo_add", "undo_hash"}

\* C9 as stated: every cache access of every thread, the resolve-inputs step
\* and the capture of the pre-block checksum included, is made holding the lock.
C9_Original ==
    /\ \A r \in Readers : rpc[r] = "locked" => r \in mu
    /\ wpc \in (WriterLockedPcs \cup WriterUnlockedPcs) => Writer \in mu

\* C9 amended: every cache access of a query, of the duplicate check of the
\* add step, of the cache-mutation phase and of the undo action is made
\* holding the lock, and no query is inside the cache while it is mutated.
C9_LockedAccess ==
    /\ \A r \in Readers : rpc[r] = "locked" => mu = {r}
    /\ wpc \in WriterLockedPcs => mu = {Writer}
    /\ wpc \in WriterMutatingPcs => \A r \in Readers : rpc[r] # "locked"

\* C9 witness: the cache is half updated while a query waits for the lock
C9_Witness ==
    /\ wpc = "update_add" /\ w.delUxs # <<>> /\ w.addUxs # <<>>
    /\ \E r \in Readers : rpc[r] = "lock"

\* the statement the writer is about to execute reads or writes a bucket
StoreIOPcs == {"delete", "add_store"}

\* C10: the thread that performs a store read or write does not hold the
\* cache lock, and while it holds the lock for the batched cache update or
\* for the undo no store access of the block remains to be done.
C10_NoLockDuringStoreIO ==
    /\ wpc \in StoreIOPcs => Writer \notin mu
    /\ Writer \in mu => wpc \in WriterLockedPcs
    /\ wpc \in WriterMutatingPcs => w.i > Len(w.txUxs)

\* C10 witness: a store write of the add step is about to happen after the
\* duplicate check released the lock, which a query holds meanwhile
C10_Witness ==
    /\ wpc = "add_store" /\ Writer \notin mu
    /\ \E r \in Readers : rpc[r] = "locked" /\ mu = {r}


\* C11: a pool constructed from a store reached by committed blocks has the
\* Output Region as its mapping and the stored meta value (zero if absent)
\* as its checksum, which is exactly the cache state the running pool had.
C11_Reconciliation ==
    last = "restarted"
        => /\ cache_pool = db_pool
           /\ cache_uxhash = (IF db_meta = <<>> THEN ZeroHash ELSE db_meta[1])
           /\ cache_pool = pre.pool
           /\ cache_uxhash = pre.uxhash


\* C12: when a transaction names an input that is absent from the cache,
\* its resolve-inputs step returns the not-found error without any store
\* access for that transaction, and no later transaction is processed.
C12_MissingInputAborts ==
    [][/\ (wpc = "resolve" /\ wpc' # wpc)
            => IF \E k \in 1..Len(w.txn.In) : w.txn.In[k] \notin DOMAIN cache_pool
               THEN /\ wpc' = "returned" /\ w'.err = "NotFound"
                    /\ tx' = tx /\ blk' = blk
                    /\ cache_pool' = cache_pool /\ cache_uxhash' = cache_uxhash
               ELSE wpc' = "delete" /\ tx' = tx
       /\ (wpc \in {"returned", "rolledback"} /\ Failed)
            => (tx' = tx /\ blk' = blk)
      ]_vars

\* C12 witness: the second transaction of a block named a missing input
\* after the first one had written to the store
C12_Witness ==
    /\ wpc = "returned" /\ w.err = "NotFound"
    /\ Len(blk) = 2
    /\ \E k \in 1..Len(blk[2].In) : blk[2].In[k] \notin DOMAIN cache_pool
    /\ tx.meta # db_meta


\* C13: every insert into the Output Region made by apply_block targets an
\* id that is absent from the Output Region as the store transaction sees it,
\* ids inserted earlier in the same block included.
C13_NeverOverwritten ==
    wpc = "add_store" => Hash(w.txUxs[w.i]) \notin DOMAIN tx.pool

\* the Checksum Region agrees with the Output Region in the view t
RegionsConsistent(t) == getXorHash(t.meta) = XorOfSet(Range(t.pool))

\* C14: inside the store transaction, after each completed delete and each
\* completed add, the Checksum Region equals the xor of snapshot_hash over
\* the Output Region, if it did when the block application started.
C14_DurableChecksum ==
    (/\ wpc \notin {"idle", "done"}
     /\ ~Failed
     /\ RegionsConsistent([pool |-> pre.db_pool, meta |-> pre.db_meta]))
        => RegionsConsistent(tx)

\* C15: after a successful resolve-inputs step every input id the deletion
\* step looks up is present in the Output Region as the store transaction
\* sees it at that lookup, so the silent-skip branch is never taken.
C15_SkipUnreachable ==
    (wpc = "delete" /\ pre.pool = pre.db_pool)
        => \A k \in 1..Len(w.txn.In) :
              /\ w.txn.In[k] \in DOMAIN tx.pool
              /\ \A j \in 1..(k - 1) : w.txn.In[j] # w.txn.In[k]


\* the cache before the block and the cache the block's update produces
PreCache == <<pre.pool, pre.uxhash>>
PostCache == <<addUxToCache(deleteUxFromCache(pre.pool, w.delUxs), w.addUxs), w.uxHash>>

\* C16: a query that is inside its body reads either the complete cache of
\* before the block or the complete updated one, never a partly updated
\* one, and the cached checksum is set once, at the end of the update.
C16_AtomicCacheUpdate ==
    /\ (\E r \in Readers : rpc[r] = "locked")
          => <<cache_pool, cache_uxhash>> \in {PreCache, PostCache}
    /\ wpc \in {"update_lock", "update_del", "update_add", "update_hash"}
          => cache_uxhash = pre.uxhash
    /\ (wpc = "returned" /\ w.err = "ok")
          => <<cache_pool, cache_uxhash>> = PostCache

\* C16 witness: a query is inside its body right after a block that spent
\* and created records updated the cache
C16_Witness ==
    /\ wpc = "returned" /\ w.err = "ok"
    /\ w.delUxs # <<>> /\ w.addUxs # <<>>
    /\ PreCache # PostCache
    /\ \E r \in Readers : rpc[r] = "locked" /\ rop[r].name = "GetAll"


\* C17: a fault raised inside the add step comes back from apply_block as
\* an error: the handler has returned, the lock is not held and the cache
\* mapping and cached checksum are unchanged.
C17_FaultBecomesError ==
    w.fault => /\ wpc \in {"returned", "rolledback", "done"}
               /\ w.err = "InternalFault"
               /\ Writer \notin mu
               /\ cache_pool = pre.pool
               /\ cache_uxhash = pre.uxhash

\* C17 witness: the fault hit the second transaction's add after the
\* checksum had been put, with writes of the first transaction in the store
C17_Witness ==
    /\ w.fault /\ wpc = "returned"
    /\ Len(blk) = 2 /\ blk[1].Out # <<>>
    /\ getXorHash(tx.meta) # XorOfSet(Range(tx.pool))


\* C18: applying a block with no transactions succeeds and leaves the cache
\* mapping, the cached checksum and both store regions unchanged; and after a
\* successful block whose last transaction creates no outputs, a cached
\* checksum that agreed with the Checksum Region before still agrees with it.
C18_EmptyBlockNoOp ==
    /\ (wpc = "returned" /\ blk = <<>>)
          => /\ w.err = "ok"
             /\ cache_pool = pre.pool
             /\ cache_uxhash = pre.uxhash
             /\ tx = [pool |-> pre.db_pool, meta |-> pre.db_meta]
    /\ (/\ wpc = "returned" /\ w.err = "ok"
        /\ blk # <<>> /\ blk[Len(blk)].Out = <<>>
        /\ pre.uxhash = getXorHash(pre.db_meta))
          => cache_uxhash = getXorHash(tx.meta)

\* C19: invoking the undo action that came with an error changes neither
\* the cache mapping nor the cached checksum, leaves the lock and the store
\* transaction alone and ends at once, whoever holds the lock.
C19_FailedUndoIsNoOp ==
    [][(wpc = "returned" /\ Failed /\ wpc' \notin {"returned", "done"})
          => /\ wpc' = "rolledback"
             /\ cache_pool' = cache_pool
             /\ cache_uxhash' = cache_uxhash
             /\ mu' = mu
             /\ tx' = tx
      ]_vars

\* C19 witness: the undo action of a failed block has run while a query
\* held the lock, over a non-empty cache
C19_Witness ==
    /\ wpc = "rolledback" /\ Failed
    /\ \E r \in Readers : r \in mu
    /\ cache_pool # EmptyMap

=============================================================================
